---- MODULE Spec2Model ----
(***************************************************************************)
(* A model of the scull storage engine of src/scull.rs: the chain of       *)
(* ScullQset nodes, each with an optional QSet of optional quanta, and the *)
(* handlers read_iter, write_iter and ioctl of the misc device.            *)
(*                                                                         *)
(* Option<T> is modelled as a sequence of length 0 (None) or 1 (Some(x)).  *)
(* The linked list headed by ScullDevData.data is modelled as the sequence *)
(* of its nodes: node i+1 of the sequence is the node reached from the     *)
(* head by following `next` i times, and a node whose `next` is None is    *)
(* the last one of the sequence.                                           *)
(*                                                                         *)
(* The two sizes are scaled down (4000 -> 2 bytes per quantum, 1000 -> 3   *)
(* slots per qset) so that quantum boundaries, slots and items are all     *)
(* reached by small offsets; the arithmetic is the code's.                 *)
(***************************************************************************)
EXTENDS Integers, Sequences, FiniteSets

\* src/scull.rs:26 (scaled: 4000 in the source)
SCULL_QUANTUM_DEFAULT == 2
\* src/scull.rs:27 (scaled: 1000 in the source)
SCULL_QSET_DEFAULT == 3

\* Bounds of the model.
MaxOffset == 8      \* offsets 0..MaxOffset are handed to read and write
MaxLen == 3         \* iov.len() of a write is 1..MaxLen, of a read 0..MaxLen
MaxWrites == 2      \* write calls between two resets

None == <<>>
Some(x) == <<x>>
is_none(o) == o = <<>>
unwrap(o) == o[1]

Min(a, b) == IF a < b THEN a ELSE b

\* A new node as it would be if it were created with its qset in place.
EmptyNode_with_qset == [data |-> Some([s \in 1..SCULL_QSET_DEFAULT |-> None])]

\* ScullQset { data: None, next: None }
EmptyNode == [data |-> None]

\* ScullDevData::new
ScullDevData_new ==
    [data |-> None, quantum |-> SCULL_QUANTUM_DEFAULT,
     qset |-> SCULL_QSET_DEFAULT, size |-> 0]

\* trim as it would be if it set a quantum other than the default.
trim_other_quantum(dev) ==
    [dev EXCEPT !.data = None, !.size = 0,
                !.quantum = SCULL_QUANTUM_DEFAULT + 1,
                !.qset = SCULL_QSET_DEFAULT]

\* trim as it would be with `self.size = 0` left out.
trim_keeps_size(dev) ==
    [dev EXCEPT !.data = None,
                !.quantum = SCULL_QUANTUM_DEFAULT,
                !.qset = SCULL_QSET_DEFAULT]

\* trim as it would be if only the head node were unlinked and dropped.
trim_head_only(dev) ==
    [dev EXCEPT !.data = IF is_none(dev.data) THEN None ELSE Tail(dev.data),
                !.size = 0,
                !.quantum = SCULL_QUANTUM_DEFAULT,
                !.qset = SCULL_QSET_DEFAULT]

\* ScullDevData::trim: the whole chain is taken and dropped, then the three
\* scalar fields are set.
trim(dev) ==
    [dev EXCEPT !.data = None, !.size = 0,
                !.quantum = SCULL_QUANTUM_DEFAULT,
                !.qset = SCULL_QSET_DEFAULT]

\* The loop of follow: i iterations are done and current_node is chain[i+1].
\* budget is the number of allocations that still succeed.
RECURSIVE follow_loop(_, _, _, _)
follow_loop(chain, i, item, budget) ==
    IF i = item
    THEN [data |-> chain, err |-> "OK", budget |-> budget]
    ELSE IF Len(chain) = i + 1
         THEN IF budget = 0
              THEN [data |-> chain, err |-> "ENOMEM", budget |-> 0]
              ELSE follow_loop(Append(chain, EmptyNode), i + 1, item, budget - 1)
         ELSE follow_loop(chain, i + 1, item, budget)

\* follow as it would be if it linked one node more than the item asked for.
follow_one_more(chain, item, budget) ==
    LET f == IF is_none(chain)
             THEN IF budget = 0
                  THEN [data |-> chain, err |-> "ENOMEM", budget |-> 0]
                  ELSE follow_loop(<<EmptyNode>>, 0, item, budget - 1)
             ELSE follow_loop(chain, 0, item, budget)
    IN  IF f.err = "OK" THEN [f EXCEPT !.data = Append(f.data, EmptyNode)] ELSE f

\* ScullDevData::follow: the chain after the call (nodes linked before a
\* failing allocation stay linked), the error, and the budget left.
follow(chain, item, budget) ==
    IF is_none(chain)
    THEN IF budget = 0
         THEN [data |-> chain, err |-> "ENOMEM", budget |-> 0]
         ELSE follow_loop(<<EmptyNode>>, 0, item, budget - 1)
    ELSE follow_loop(chain, 0, item, budget)

\* push_loop as it would be with `<=` for `<`: one slot too many.
RECURSIVE push_loop_le(_, _, _)
push_loop_le(qset_vec, qset, budget) ==
    IF Len(qset_vec) <= qset
    THEN IF budget = 0
         THEN [vec |-> qset_vec, err |-> "ENOMEM", budget |-> 0]
         ELSE push_loop_le(Append(qset_vec, None), qset, budget - 1)
    ELSE [vec |-> qset_vec, err |-> "OK", budget |-> budget]

\* while qset_vec.len() < qset { qset_vec.push(None, GFP_KERNEL)?; }
RECURSIVE push_loop(_, _, _)
push_loop(qset_vec, qset, budget) ==
    IF Len(qset_vec) < qset
    THEN IF budget = 0
         THEN [vec |-> qset_vec, err |-> "ENOMEM", budget |-> 0]
         ELSE push_loop(Append(qset_vec, None), qset, budget - 1)
    ELSE [vec |-> qset_vec, err |-> "OK", budget |-> budget]

\* zeroed as it would be if the new buffer were filled with 0xff.
zeroed_ff(quantum) == [i \in 1..quantum |-> 255]

\* quantum_vec.resize(quantum, 0, GFP_KERNEL)
zeroed(quantum) == [i \in 1..quantum |-> 0]

\* iov.copy_from_iter(slice): the bytes of the source that fit the slice
\* replace the head of the slice; returns the new slice and the count. (The
\* kernel's IovIterSource copies less than the slice only when the source
\* has no more bytes.)
copy_from_iter(src, slice) ==
    LET n == Min(Len(src), Len(slice))
    IN  [slice |-> [i \in 1..Len(slice) |-> IF i <= n THEN src[i] ELSE slice[i]],
         copied |-> n]

\* with_slice as it would be if the slice were taken from the start of the
\* quantum: quantum_buf[0..write_count].
with_slice_at_start(buf, q_pos, slice) ==
    [i \in 1..Len(buf) |-> IF i <= Len(slice) THEN slice[i] ELSE buf[i]]

\* with_slice as it would be if the rest of the quantum were cleared.
with_slice_clears(buf, q_pos, slice) ==
    [i \in 1..Len(buf) |->
        IF i > q_pos /\ i <= q_pos + Len(slice) THEN slice[i - q_pos] ELSE 0]

\* buf with buf[q_pos .. q_pos + Len(slice)) replaced by slice (0-based q_pos)
with_slice(buf, q_pos, slice) ==
    [i \in 1..Len(buf) |->
        IF i > q_pos /\ i <= q_pos + Len(slice) THEN slice[i - q_pos] ELSE buf[i]]

\* The position arithmetic shared by read_iter and write_iter.
item_of(offset, itemsize) == offset \div itemsize
rest_of(offset, itemsize) == offset % itemsize
s_pos_of(offset, quantum, qset) == rest_of(offset, quantum * qset) \div quantum
q_pos_of(offset, quantum, qset) == rest_of(offset, quantum * qset) % quantum

\* write_count as it would be with the cut one byte short of the quantum's
\* end.
write_count_short(count, quantum, q_pos) ==
    IF count > quantum - q_pos - 1 THEN quantum - q_pos - 1 ELSE count

\* write_count: the iov's length, cut at the end of the quantum.
write_count_of(count, quantum, q_pos) ==
    IF count > quantum - q_pos THEN quantum - q_pos ELSE count

\* new_size as it would be if a write never raised size.
new_size_never(size, new_offset) == size

\* new_size as it would be if size were set without the comparison.
new_size_always(size, new_offset) == new_offset

\* inner.size after a write that ended at new_offset.
new_size(size, new_offset) ==
    IF size < new_offset THEN new_offset ELSE size

\* The block of write_iter after follow succeeded on chain: allocate the qset
\* and the quantum if needed, copy, and update size. A failing allocation
\* returns early with what was linked so far.
write_at(dev, chain, offset, src, budget) ==
    LET quantum == dev.quantum
        qset == dev.qset
        item == item_of(offset, quantum * qset)
        s_pos == s_pos_of(offset, quantum, qset)
        q_pos == q_pos_of(offset, quantum, qset)
        dptr == chain[item + 1]
        pushed == IF is_none(dptr.data)
                  THEN push_loop(<<>>, qset, budget)
                  ELSE [vec |-> unwrap(dptr.data), err |-> "OK", budget |-> budget]
    IN  IF pushed.err # "OK"
        THEN [dev |-> [dev EXCEPT !.data = chain], err |-> "ENOMEM", val |-> 0]
        ELSE
        LET data_array == pushed.vec
            linked == [chain EXCEPT ![item + 1].data = Some(data_array)]
        IN  IF is_none(data_array[s_pos + 1]) /\ pushed.budget = 0
            THEN [dev |-> [dev EXCEPT !.data = linked], err |-> "ENOMEM", val |-> 0]
            ELSE
            LET quantum_buf == IF is_none(data_array[s_pos + 1])
                               THEN zeroed(quantum)
                               ELSE unwrap(data_array[s_pos + 1])
                write_count == write_count_of(Len(src), quantum, q_pos)
                cp == copy_from_iter(src, SubSeq(quantum_buf, q_pos + 1, q_pos + write_count))
                written_total == cp.copied
                new_buf == with_slice(quantum_buf, q_pos, cp.slice)
                new_array == [data_array EXCEPT ![s_pos + 1] = Some(new_buf)]
                new_chain == [chain EXCEPT ![item + 1].data = Some(new_array)]
                new_offset == offset + written_total
            IN  [dev |-> [dev EXCEPT !.data = new_chain,
                                     !.size = new_size(dev.size, new_offset)],
                 err |-> "OK", val |-> written_total]

\* RustScull::write_iter on device state dev: the state after the call and
\* the result (err = "OK" and val = bytes written, or the error).
write_iter(dev, offset, src, budget) ==
    LET itemsize == dev.quantum * dev.qset
    IN  IF itemsize = 0
        THEN [dev |-> dev, err |-> "EFAULT", val |-> 0]
        ELSE
        LET f == follow(dev.data, item_of(offset, itemsize), budget)
        IN  IF f.err # "OK"
            THEN [dev |-> [dev EXCEPT !.data = f.data], err |-> "ENOMEM", val |-> 0]
            ELSE write_at(dev, f.data, offset, src, f.budget)

\* The read-only walk of read_iter: dptr after `steps` more steps, as the
\* rest of the chain that starts at it (None when the chain has ended).
RECURSIVE read_walk(_, _)
read_walk(dptr, steps) ==
    IF steps = 0 THEN dptr
    ELSE IF is_none(dptr) THEN None
    ELSE read_walk(Tail(dptr), steps - 1)

\* read_slot as it would be if a missing quantum read as zeros.
read_slot_zero_fill(chain, item, s_pos) ==
    LET dptr == read_walk(chain, item)
        node_data == IF is_none(dptr) THEN None ELSE dptr[1].data
    IN  IF is_none(node_data) THEN Some(zeroed(SCULL_QUANTUM_DEFAULT))
        ELSE IF s_pos + 1 > Len(unwrap(node_data)) THEN Some(zeroed(SCULL_QUANTUM_DEFAULT))
        ELSE IF is_none(unwrap(node_data)[s_pos + 1]) THEN Some(zeroed(SCULL_QUANTUM_DEFAULT))
        ELSE unwrap(node_data)[s_pos + 1]

\* "Get the quantum": the buffer of slot s_pos of node `item`, or None when
\* the node, its qset or the slot is missing.
read_slot(chain, item, s_pos) ==
    LET dptr == read_walk(chain, item)
        node_data == IF is_none(dptr) THEN None ELSE dptr[1].data
    IN  IF is_none(node_data) THEN None
        ELSE IF s_pos + 1 > Len(unwrap(node_data)) THEN None
        ELSE unwrap(node_data)[s_pos + 1]

\* read_count_of as it would be without the cut at inner.size.
read_count_uncut(len, offset, size) == len

\* count: the iov's length, cut at inner.size.
read_count_of(len, offset, size) ==
    IF offset + len > size THEN size - offset ELSE len

\* "Read only up to the end of this quantum".
read_clamp(count, quantum, q_pos) ==
    IF count > quantum - q_pos THEN quantum - q_pos ELSE count

\* RustScull::read_iter on device state dev with iov.len() = len: the result
\* and the bytes copied to the reader. The device state is only read.
read_iter(dev, offset, len) ==
    LET itemsize == dev.quantum * dev.qset
    IN  IF offset >= dev.size THEN [err |-> "OK", val |-> 0, bytes |-> <<>>]
        ELSE IF itemsize = 0 THEN [err |-> "EFAULT", val |-> 0, bytes |-> <<>>]
        ELSE
        LET count0 == read_count_of(len, offset, dev.size)
            item == item_of(offset, itemsize)
            s_pos == s_pos_of(offset, dev.quantum, dev.qset)
            q_pos == q_pos_of(offset, dev.quantum, dev.qset)
            slot == read_slot(dev.data, item, s_pos)
        IN  IF is_none(slot) THEN [err |-> "OK", val |-> 0, bytes |-> <<>>]
            ELSE
            LET quantum_buf == unwrap(slot)
                count == read_clamp(count0, dev.quantum, q_pos)
                end == Min(q_pos + count, Len(quantum_buf))
                slice_to_read == SubSeq(quantum_buf, q_pos + 1, end)
            IN  [err |-> "OK", val |-> Len(slice_to_read), bytes |-> slice_to_read]

\* ioctl as it would be if every command code emptied the device.
ioctl_any_cmd(dev, cmd) == [dev |-> trim(dev), err |-> "OK", val |-> 0]

\* RustScull::ioctl
ioctl(dev, cmd) ==
    IF cmd = 0 THEN [dev |-> trim(dev), err |-> "OK", val |-> 0]
    ELSE [dev |-> dev, err |-> "ENOTTY", val |-> 0]

(***************************************************************************)
(* The inputs.                                                             *)
(***************************************************************************)
Offsets == 0..MaxOffset
ReadOffsets == 0..(MaxOffset + 1)
ReadLens == 0..MaxLen
\* The source of the k-th write since the last reset, n bytes long: bytes
\* 10k+1, 10k+2, ..., all distinct, none 0, and none that of another write.
Source(k, n) == [i \in 1..n |-> (10 * k + i) % 256]
Sources(k) == { Source(k, n) : n \in 1..MaxLen }
\* The allocations one write_iter can make: the nodes up to the item, the
\* pushes of one qset, one quantum.
MaxAllocs == (MaxOffset \div (SCULL_QUANTUM_DEFAULT * SCULL_QSET_DEFAULT)) + 1
              + SCULL_QSET_DEFAULT + 1
Budgets == 0..MaxAllocs
\* The allocations write_iter(dev, offset, ..) makes when none fails.
allocs_asked(dev, offset) ==
    LET item == item_of(offset, dev.quantum * dev.qset)
        s_pos == s_pos_of(offset, dev.quantum, dev.qset)
        have == Len(dev.data)
        node_data == IF item + 1 <= have THEN dev.data[item + 1].data ELSE None
    IN  (IF item + 1 > have THEN item + 1 - have ELSE 0)
        + (IF is_none(node_data) THEN dev.qset ELSE 0)
        + (IF is_none(node_data) THEN 1
           ELSE IF is_none(unwrap(node_data)[s_pos + 1]) THEN 1 ELSE 0)
\* ioctl command codes: the reset command and one that is not.
Cmds == {0, 1}

(***************************************************************************)
(* The device of one open file, and what the last call was and returned.   *)
(***************************************************************************)
VARIABLES
    inner,      \* the ScullDevData behind the mutex
    last,       \* the last call: op, offset, len (iov.len()), cmd, err, val
    src,        \* the source bytes handed to the last write_iter
    out,        \* the bytes the last read_iter copied to its reader
    nwrites,    \* write_iter calls since the last reset
    hw,         \* the largest offset + val of a successful write since the
                \* last reset
    resets,     \* resets in a row just done (counted up to 2)
    freed,      \* the chain nodes the last call dropped
    hist,       \* of the write_iter calls since the last reset: the
                \* <<item, s_pos>> each computed, whether one failed, and the
                \* logical offsets the successful ones copied to (kept by
                \* SpecHist)
    files,      \* of each open file: its Ptr, None or Some(the ScullDevData
                \* of that open)
    lastf,      \* the last call on one of the files: file, op, cmd, err, val
    cl,         \* a client that writes its data in a loop and reads it back
    mutex,      \* the Mutex around inner: None, or Some(the thread holding it)
    th          \* of each thread: where it is in its handler, and its call

seqvars == <<last, src, out, hw, resets, freed, hist, files, lastf, cl>>
lockvars == <<mutex, th>>
sessvars == <<files, lastf>>
vars == <<inner, last, src, out, nwrites, hw, resets, freed, hist, files, lastf, cl,
          mutex, th>>

\* The threads that call into the handlers of one open file at once.
Threads == {"a", "b"}
\* A thread outside the handlers.
Idle == [pc |-> "idle", op |-> "none", offset |-> 0, len |-> 0, cmd |-> 0,
         budget |-> 0, snap |-> ScullDevData_new,
         err |-> "OK", val |-> 0, bytes |-> <<>>]

Call(op, offset, len, cmd, r) ==
    [op |-> op, offset |-> offset, len |-> len, cmd |-> cmd,
     err |-> r.err, val |-> r.val]

NoHist == [touched |-> {}, failed |-> FALSE, covered |-> {}]

\* The files a process can hold open on the device at once.
Files == {"A", "B"}
NoCall == [file |-> "none", op |-> "none", cmd |-> 0, err |-> "OK", val |-> 0]
\* The client before it has started.
NoClient == [pc |-> "pre", o |-> 0, data |-> <<>>, pos |-> 0, got |-> <<>>, calls |-> 0]

Init ==
    /\ inner = ScullDevData_new
    /\ last = Call("open", 0, 0, 0, [err |-> "OK", val |-> 0])
    /\ src = <<>>
    /\ out = <<>>
    /\ nwrites = 0
    /\ hw = 0
    /\ resets = 0
    /\ freed = 0
    /\ hist = NoHist
    /\ files = [f \in Files |-> None]
    /\ lastf = NoCall
    /\ cl = NoClient
    /\ mutex = None
    /\ th = [t \in Threads |-> Idle]

\* One write_iter call, lock to return. budget: the allocations that succeed
\* before one fails; budget = allocs_asked means that none fails.
Write(offset, s, budget) ==
    /\ nwrites < MaxWrites
    /\ budget <= allocs_asked(inner, offset)
    /\ LET r == write_iter(inner, offset, s, budget)
       IN  /\ inner' = r.dev
           /\ last' = Call("write", offset, Len(s), 0, r)
           /\ hw' = IF r.err = "OK" /\ offset + r.val > hw
                    THEN offset + r.val ELSE hw
    /\ src' = s
    /\ out' = <<>>
    /\ nwrites' = nwrites + 1
    /\ resets' = 0
    /\ freed' = 0
    /\ UNCHANGED <<hist, lockvars, sessvars, cl>>

\* Read as it would be if read_iter walked the chain with follow, which
\* allocates the nodes that are missing.
Read_with_follow(offset, len) ==
    /\ LET r == read_iter(inner, offset, len)
       IN  /\ last' = Call("read", 0, 0, 0, r)
           /\ out' = r.bytes
    /\ inner' = [inner EXCEPT !.data =
                    follow(inner.data, item_of(offset, inner.quantum * inner.qset),
                           MaxAllocs).data]
    /\ src' = <<>>
    /\ resets' = 0
    /\ freed' = 0
    /\ UNCHANGED <<nwrites, hw, hist, lockvars, sessvars, cl>>

\* One read_iter call, lock to return. (Of a read, last keeps the result and
\* not the offset and length; out keeps the bytes.)
Read(offset, len) ==
    /\ LET r == read_iter(inner, offset, len)
       IN  /\ last' = Call("read", 0, 0, 0, r)
           /\ out' = r.bytes
    /\ src' = <<>>
    /\ resets' = 0
    /\ freed' = 0
    /\ UNCHANGED <<inner, nwrites, hw, hist, lockvars, sessvars, cl>>

\* One ioctl call.
Ioctl(cmd) ==
    /\ LET r == ioctl(inner, cmd)
       IN  /\ inner' = r.dev
           /\ last' = Call("ioctl", 0, 0, cmd, r)
    /\ nwrites' = IF cmd = 0 THEN 0 ELSE nwrites
    /\ hw' = IF cmd = 0 THEN 0 ELSE hw
    /\ resets' = IF cmd # 0 THEN 0 ELSE IF resets < 2 THEN resets + 1 ELSE resets
    /\ freed' = IF cmd = 0 THEN Len(inner.data) ELSE 0
    /\ src' = <<>>
    /\ out' = <<>>
    /\ UNCHANGED <<hist, lockvars, sessvars, cl>>

WriteStep ==
    \E offset \in Offsets, s \in Sources(nwrites + 1), budget \in Budgets :
        Write(offset, s, budget)
ReadStep == \E offset \in ReadOffsets, len \in ReadLens : Read(offset, len)
IoctlStep == \E cmd \in Cmds : Ioctl(cmd)

Next == WriteStep \/ ReadStep \/ IoctlStep

Spec == Init /\ [][Next]_vars

(***************************************************************************)
(* The same calls, with the history of the write_iter calls kept in hist:  *)
(* write_iter computes item and s_pos from the offset before it allocates  *)
(* anything, so every call, failed or not, is noted with its position.     *)
(***************************************************************************)
\* hist after write_iter(offset, ..) on device dev returned r.
Noted(h, dev, offset, r) ==
    [touched |-> h.touched \cup {<<item_of(offset, dev.quantum * dev.qset),
                                   s_pos_of(offset, dev.quantum, dev.qset)>>},
     failed |-> h.failed \/ r.err # "OK",
     covered |-> IF r.err = "OK" THEN h.covered \cup (offset..(offset + r.val - 1))
                 ELSE h.covered]

WriteH(offset, s, budget) ==
    /\ nwrites < MaxWrites
    /\ budget <= allocs_asked(inner, offset)
    /\ LET r == write_iter(inner, offset, s, budget)
       IN  /\ inner' = r.dev
           /\ last' = Call("write", offset, Len(s), 0, r)
           /\ hw' = IF r.err = "OK" /\ offset + r.val > hw
                    THEN offset + r.val ELSE hw
           /\ hist' = Noted(hist, inner, offset, r)
    /\ src' = s
    /\ out' = <<>>
    /\ nwrites' = nwrites + 1
    /\ resets' = 0
    /\ freed' = 0
    /\ UNCHANGED <<lockvars, sessvars, cl>>

IoctlH(cmd) ==
    /\ LET r == ioctl(inner, cmd)
       IN  /\ inner' = r.dev
           /\ last' = Call("ioctl", 0, 0, cmd, r)
    /\ nwrites' = IF cmd = 0 THEN 0 ELSE nwrites
    /\ hw' = IF cmd = 0 THEN 0 ELSE hw
    /\ resets' = IF cmd # 0 THEN 0 ELSE IF resets < 2 THEN resets + 1 ELSE resets
    /\ freed' = IF cmd = 0 THEN Len(inner.data) ELSE 0
    /\ hist' = IF cmd = 0 THEN NoHist ELSE hist
    /\ src' = <<>>
    /\ out' = <<>>
    /\ UNCHANGED <<lockvars, sessvars, cl>>

WriteHStep ==
    \E offset \in Offsets, s \in Sources(nwrites + 1), budget \in Budgets :
        WriteH(offset, s, budget)
\* The reads of a reader with a buffer of MaxLen bytes.
ReadHStep == \E offset \in ReadOffsets : Read(offset, MaxLen)
IoctlHStep == \E cmd \in Cmds : IoctlH(cmd)
NextHist == WriteHStep \/ ReadHStep \/ IoctlHStep
SpecHist == Init /\ [][NextHist]_vars

(***************************************************************************)
(* The handlers step by step, called by several threads on one open file:  *)
(* a handler is entered, takes the mutex (device.lock()), runs its body on *)
(* inner, and returns, which drops the guard. ioctl takes the mutex for    *)
(* command 0 only.                                                         *)
(***************************************************************************)
LockOffsets == {0, MaxOffset}
LockBudgets == {0, MaxAllocs}

\* Enter as it would be if a handler went on to its body without
\* device.lock().
Enter_no_lock(t, op, offset, budget) ==
    /\ th[t].pc = "idle"
    /\ op = "write" => nwrites < MaxWrites
    /\ th' = [th EXCEPT ![t] =
                [Idle EXCEPT !.pc = "cs", !.op = op, !.snap = inner,
                             !.offset = IF op = "ioctl" THEN 0 ELSE offset,
                             !.len = IF op = "ioctl" THEN 0 ELSE MaxLen,
                             !.budget = IF op = "write" THEN budget ELSE 0]]
    /\ nwrites' = IF op = "write" THEN nwrites + 1 ELSE nwrites
    /\ UNCHANGED <<inner, mutex, seqvars>>

\* read_iter, write_iter, ioctl with cmd 0: up to device.lock().
Enter(t, op, offset, budget) ==
    /\ th[t].pc = "idle"
    /\ op = "write" => nwrites < MaxWrites
    /\ th' = [th EXCEPT ![t] =
                [Idle EXCEPT !.pc = "lock", !.op = op,
                             !.offset = IF op = "ioctl" THEN 0 ELSE offset,
                             !.len = IF op = "ioctl" THEN 0 ELSE MaxLen,
                             !.budget = IF op = "write" THEN budget ELSE 0]]
    /\ nwrites' = IF op = "write" THEN nwrites + 1 ELSE nwrites
    /\ UNCHANGED <<inner, mutex, seqvars>>

\* ioctl with another command: Err(ENOTTY), and the mutex is not taken.
EnterOther(t, cmd) ==
    /\ th[t].pc = "idle"
    /\ cmd # 0
    /\ th' = [th EXCEPT ![t] =
                [Idle EXCEPT !.op = "ioctl", !.cmd = cmd,
                             !.err = ioctl(inner, cmd).err]]
    /\ UNCHANGED <<inner, nwrites, mutex, seqvars>>

\* device.lock(): waits until the mutex is free and takes it. snap keeps
\* inner as the thread found it.
Lock(t) ==
    /\ th[t].pc = "lock"
    /\ is_none(mutex)
    /\ mutex' = Some(t)
    /\ th' = [th EXCEPT ![t].pc = "cs", ![t].snap = inner]
    /\ UNCHANGED <<inner, nwrites, seqvars>>

\* The result of the call of thread record c on device state dev.
Apply(c, dev) ==
    IF c.op = "write"
    THEN LET r == write_iter(dev, c.offset, Source(1, c.len), c.budget)
         IN  [dev |-> r.dev, err |-> r.err, val |-> r.val, bytes |-> <<>>]
    ELSE IF c.op = "read"
    THEN LET r == read_iter(dev, c.offset, c.len)
         IN  [dev |-> dev, err |-> r.err, val |-> r.val, bytes |-> r.bytes]
    ELSE LET r == ioctl(dev, c.cmd)
         IN  [dev |-> r.dev, err |-> r.err, val |-> r.val, bytes |-> <<>>]

\* The handler's body, from the lock to its return value.
Body(t) ==
    /\ th[t].pc = "cs"
    /\ LET r == Apply(th[t], inner)
       IN  /\ inner' = r.dev
           /\ th' = [th EXCEPT ![t].pc = "unlock", ![t].err = r.err,
                                ![t].val = r.val, ![t].bytes = r.bytes]
    /\ nwrites' = IF th[t].op = "ioctl" THEN 0 ELSE nwrites
    /\ UNCHANGED <<mutex, seqvars>>

\* The handler returns: the guard is dropped.
Unlock(t) ==
    /\ th[t].pc = "unlock"
    /\ mutex' = None
    /\ th' = [th EXCEPT ![t] = Idle]
    /\ UNCHANGED <<inner, nwrites, seqvars>>

NextLock ==
    \/ \E t \in Threads, op \in {"read", "write", "ioctl"},
          offset \in LockOffsets, budget \in LockBudgets :
            Enter(t, op, offset, budget)
    \/ \E t \in Threads, cmd \in Cmds : EnterOther(t, cmd)
    \/ \E t \in Threads : Lock(t)
    \/ \E t \in Threads : Body(t)
    \/ \E t \in Threads : Unlock(t)

SpecLock == Init /\ [][NextLock]_vars

(***************************************************************************)
(* read_iter as a function of the ScullDevData it finds. quantum and qset  *)
(* are plain usize fields, and read_iter and write_iter guard against a    *)
(* product of 0; the handlers themselves never store a 0 there. To see     *)
(* what the guard of read_iter does, read_iter is applied here to records  *)
(* with either field 0 or the default, and any size.                       *)
(***************************************************************************)
ConfigDevs ==
    { [ScullDevData_new EXCEPT !.quantum = q, !.qset = s, !.size = n] :
        q \in {0, SCULL_QUANTUM_DEFAULT}, s \in {0, SCULL_QSET_DEFAULT},
        n \in 0..MaxOffset }

InitConfig ==
    /\ inner \in ConfigDevs
    /\ last = Call("open", 0, 0, 0, [err |-> "OK", val |-> 0])
    /\ src = <<>>
    /\ out = <<>>
    /\ nwrites = 0
    /\ hw = 0
    /\ resets = 0
    /\ freed = 0
    /\ hist = NoHist
    /\ files = [f \in Files |-> None]
    /\ lastf = NoCall
    /\ cl = NoClient
    /\ mutex = None
    /\ th = [t \in Threads |-> Idle]

\* One read_iter call; last keeps its offset and length.
ReadConfig(offset, len) ==
    /\ LET r == read_iter(inner, offset, len)
       IN  /\ last' = Call("read", offset, len, 0, r)
           /\ out' = r.bytes
    /\ UNCHANGED <<inner, src, nwrites, hw, resets, freed, hist, lockvars, sessvars, cl>>

NextConfig == \E offset \in ReadOffsets, len \in ReadLens : ReadConfig(offset, len)

SpecConfig == InitConfig /\ [][NextConfig]_vars

(***************************************************************************)
(* Several open files. open builds a ScullDevData of its own behind a new  *)
(* Arc<Mutex<..>> and returns it as the file's Ptr; each handler works on  *)
(* the Ptr of the file it is called on; release drops it.                  *)
(***************************************************************************)
CallF(f, op, cmd, r) == [file |-> f, op |-> op, cmd |-> cmd, err |-> r.err, val |-> r.val]

\* RustScull::open on a file that is not open; ok: Arc::pin_init succeeds.
Open(f, ok) ==
    /\ is_none(files[f])
    /\ files' = [files EXCEPT ![f] = IF ok THEN Some(ScullDevData_new) ELSE None]
    /\ lastf' = CallF(f, "open", 0, [err |-> IF ok THEN "OK" ELSE "ENOMEM", val |-> 0])
    /\ out' = <<>>
    /\ UNCHANGED <<inner, last, src, nwrites, hw, resets, freed, hist, cl, lockvars>>

\* RustScull::release: the Ptr is dropped, and the ScullDevData with it.
Release(f) ==
    /\ ~is_none(files[f])
    /\ files' = [files EXCEPT ![f] = None]
    /\ lastf' = CallF(f, "release", 0, [err |-> "OK", val |-> 0])
    /\ out' = <<>>
    /\ UNCHANGED <<inner, last, src, nwrites, hw, resets, freed, hist, cl, lockvars>>

\* WriteF as it would be if all open files shared one ScullDevData.
WriteF_shared(f, offset, s, budget) ==
    /\ ~is_none(files[f])
    /\ LET r == write_iter(unwrap(files[f]), offset, s, budget)
       IN  /\ files' = [g \in Files |-> IF is_none(files[g]) THEN None ELSE Some(r.dev)]
           /\ lastf' = CallF(f, "write", 0, r)
    /\ out' = <<>>
    /\ UNCHANGED <<inner, last, src, nwrites, hw, resets, freed, hist, cl, lockvars>>

\* write_iter on open file f.
WriteF(f, offset, s, budget) ==
    /\ ~is_none(files[f])
    /\ LET r == write_iter(unwrap(files[f]), offset, s, budget)
       IN  /\ files' = [files EXCEPT ![f] = Some(r.dev)]
           /\ lastf' = CallF(f, "write", 0, r)
    /\ out' = <<>>
    /\ UNCHANGED <<inner, last, src, nwrites, hw, resets, freed, hist, cl, lockvars>>

\* read_iter on open file f.
ReadF(f, offset, len) ==
    /\ ~is_none(files[f])
    /\ LET r == read_iter(unwrap(files[f]), offset, len)
       IN  /\ lastf' = CallF(f, "read", 0, r)
           /\ out' = r.bytes
    /\ UNCHANGED <<inner, last, src, nwrites, hw, resets, freed, hist, files, cl, lockvars>>

\* ioctl on open file f.
IoctlF(f, cmd) ==
    /\ ~is_none(files[f])
    /\ LET r == ioctl(unwrap(files[f]), cmd)
       IN  /\ files' = [files EXCEPT ![f] = Some(r.dev)]
           /\ lastf' = CallF(f, "ioctl", cmd, r)
    /\ out' = <<>>
    /\ UNCHANGED <<inner, last, src, nwrites, hw, resets, freed, hist, cl, lockvars>>

NextFiles ==
    \/ \E f \in Files, ok \in BOOLEAN : Open(f, ok)
    \/ \E f \in Files : Release(f)
    \/ \E f \in Files, offset \in LockOffsets, budget \in LockBudgets :
          WriteF(f, offset, Source(1, MaxLen), budget)
    \/ \E f \in Files, offset \in LockOffsets : ReadF(f, offset, MaxLen)
    \/ \E f \in Files, cmd \in Cmds : IoctlF(f, cmd)

SpecFiles == Init /\ [][NextFiles]_vars

(***************************************************************************)
(* A client of one open file that transfers in a loop. Before it starts,   *)
(* the device is new or holds what one earlier write left. The client      *)
(* writes its data from offset o on, calling write_iter with the bytes not *)
(* yet written at the offset it has reached and advancing by the count     *)
(* returned; then it reads from o on, advancing by the count returned,     *)
(* until a read returns 0. No allocation fails.                            *)
(***************************************************************************)
\* The write of an earlier user of the device: the bytes of Source(2, ..).
LoopPrefill(offset, s) ==
    /\ cl.pc = "pre"
    /\ nwrites = 0
    /\ inner' = write_iter(inner, offset, s, allocs_asked(inner, offset)).dev
    /\ nwrites' = 1
    /\ UNCHANGED <<last, src, out, hw, resets, freed, hist, sessvars, cl, lockvars>>

\* The client starts: n bytes to write from offset o on.
LoopStart(o, n) ==
    /\ cl.pc = "pre"
    /\ cl' = [NoClient EXCEPT !.pc = "write", !.o = o, !.data = Source(1, n), !.pos = o]
    /\ UNCHANGED <<inner, last, src, out, nwrites, hw, resets, freed, hist, sessvars, lockvars>>

\* One write_iter call of the client's write loop.
LoopWrite ==
    /\ cl.pc = "write"
    /\ LET done == cl.pos - cl.o
           rest == SubSeq(cl.data, done + 1, Len(cl.data))
           r == write_iter(inner, cl.pos, rest, allocs_asked(inner, cl.pos))
       IN  /\ inner' = r.dev
           /\ cl' = [cl EXCEPT !.pos = IF done + r.val = Len(cl.data) THEN cl.o
                                       ELSE cl.pos + r.val,
                               !.pc = IF done + r.val = Len(cl.data) THEN "read"
                                      ELSE "write",
                               !.calls = Min(cl.calls + 1, Len(cl.data) + 1)]
    /\ UNCHANGED <<last, src, out, nwrites, hw, resets, freed, hist, sessvars, lockvars>>

\* One read_iter call of the client's read loop, into a buffer of len bytes.
LoopRead(len) ==
    /\ cl.pc = "read"
    /\ LET r == read_iter(inner, cl.pos, len)
       IN  cl' = [cl EXCEPT !.pos = cl.pos + r.val,
                            !.got = cl.got \o r.bytes,
                            !.pc = IF r.val = 0 THEN "done" ELSE "read"]
    /\ UNCHANGED <<inner, last, src, out, nwrites, hw, resets, freed, hist, sessvars, lockvars>>

LoopPrefillStep == \E offset \in Offsets, s \in Sources(2) : LoopPrefill(offset, s)
LoopStartStep == \E o \in Offsets, n \in 1..MaxLen : LoopStart(o, n)
LoopReadStep == \E len \in 1..MaxLen : LoopRead(len)
NextLoop == LoopPrefillStep \/ LoopStartStep \/ LoopWrite \/ LoopReadStep

\* A client that has a call to make makes it.
SpecLoop ==
    /\ Init /\ [][NextLoop]_vars
    /\ WF_vars(LoopStartStep) /\ WF_vars(LoopWrite) /\ WF_vars(LoopReadStep)

\* allocs_asked counts the allocations of write_iter: one fewer fails, that
\* many succeed.
AllocsAskedRight ==
    \A offset \in Offsets :
        LET n == allocs_asked(inner, offset)
            s == Source(1, 1)
        IN  /\ write_iter(inner, offset, s, n).err = "OK"
            /\ n > 0 => write_iter(inner, offset, s, n - 1).err = "ENOMEM"

(***************************************************************************)
(* What the claims speak of, stated on the device state without the        *)
(* handlers' code.                                                         *)
(***************************************************************************)
ItemSize(dev) == dev.quantum * dev.qset
ByteIndex(dev, offset) == (offset % ItemSize(dev)) % dev.quantum
SlotIndex(dev, offset) == (offset % ItemSize(dev)) \div dev.quantum
ItemIndex(dev, offset) == offset \div ItemSize(dev)

\* The quantum that holds logical offset `offset`: None, or Some(buffer).
QuantumAt(dev, offset) ==
    LET i == ItemIndex(dev, offset) + 1
    IN  IF i > Len(dev.data) THEN None
        ELSE IF is_none(dev.data[i].data) THEN None
        ELSE unwrap(dev.data[i].data)[SlotIndex(dev, offset) + 1]

\* The byte stored at logical offset `offset`: None, or Some(byte).
ByteAt(dev, offset) ==
    IF is_none(QuantumAt(dev, offset)) THEN None
    ELSE Some(unwrap(QuantumAt(dev, offset))[ByteIndex(dev, offset) + 1])

\* Every logical offset of the items the model's writes can reach.
Positions == 0..((MaxOffset \div ItemSize(ScullDevData_new) + 1) * ItemSize(ScullDevData_new) - 1)

Min3(a, b, c) == Min(a, Min(b, c))
Empty == [err |-> "OK", val |-> 0, bytes |-> <<>>]
IsHole(dev, offset) == offset < dev.size /\ is_none(QuantumAt(dev, offset))
InCS(t) == th[t].pc \in {"cs", "unlock"}
WroteOK == last.op = "write" /\ last.err = "OK"
DidReset == last.op = "ioctl" /\ last.cmd = 0

(***************************************************************************)
(* C1. Round trip. As claimed: after a successful write(offset, bytes)     *)
(* with len(bytes) <= quantum_size, read(offset, len(bytes)) returns       *)
(* exactly bytes. RoundTripAnyOffset states that; it fails for a write     *)
(* that reaches the end of its quantum before the end of bytes.            *)
(***************************************************************************)
RoundTripAnyOffset ==
    (WroteOK /\ last.len <= inner.quantum)
        => read_iter(inner, last.offset, last.len).bytes = src

\* C1, amended: after a successful write(offset, bytes) that returned n,
\* read(offset, len(bytes)) returns exactly the first n bytes of bytes; that
\* is all of bytes when byte_index + len(bytes) <= quantum_size.
RoundTrip ==
    WroteOK =>
        LET r == read_iter(inner, last.offset, last.len)
        IN  /\ r.err = "OK"
            /\ r.val = last.val
            /\ r.bytes = SubSeq(src, 1, last.val)
            /\ ByteIndex(inner, last.offset) + last.len <= inner.quantum
                   => r.bytes = src

\* A write of two bytes that fit their quantum has been read back whole.
RoundTripWitness ==
    /\ WroteOK /\ last.len = 2 /\ last.val = 2 /\ last.offset > 0
    /\ read_iter(inner, last.offset, last.len).bytes = src

(***************************************************************************)
(* C2. Failure atomicity of write, as claimed: a write call that returns   *)
(* an error leaves the device state exactly as it was before the call.     *)
(* The code links each new node, and the new qset, before the next         *)
(* allocation is tried, so this fails.                                     *)
(***************************************************************************)
WriteFailureAtomic ==
    [][(last'.op = "write" /\ last'.err # "OK") => inner' = inner]_vars

(***************************************************************************)
(* C3. A successful write returns min(len(source), quantum_size -          *)
(* byte_index), stores exactly that many bytes of the source at offset,    *)
(* all in the quantum of offset, and leaves every byte of every other      *)
(* offset that was stored before as it was.                                *)
(***************************************************************************)
WriteWithinQuantum ==
    [][(last'.op = "write" /\ last'.err = "OK") =>
        LET offset == last'.offset
            n == last'.val
        IN  /\ n = Min(last'.len, inner.quantum - ByteIndex(inner, offset))
            /\ n >= 1
            /\ \A k \in 0..(n - 1) :
                   /\ ByteAt(inner', offset + k) = Some(src'[k + 1])
                   /\ ItemIndex(inner, offset + k) = ItemIndex(inner, offset)
                   /\ SlotIndex(inner, offset + k) = SlotIndex(inner, offset)
            /\ \A p \in Positions :
                   (p < offset \/ p >= offset + n) /\ ~is_none(ByteAt(inner, p))
                       => ByteAt(inner', p) = ByteAt(inner, p)
      ]_vars

\* A source longer than a quantum was written at offset 0 over a stored
\* second quantum, and the call returned quantum_size.
WriteWithinQuantumWitness ==
    /\ WroteOK /\ last.offset = 0 /\ last.len > inner.quantum
    /\ last.val = inner.quantum
    /\ ~is_none(ByteAt(inner, inner.quantum))

(***************************************************************************)
(* C4. After reset the device equals a new one: no chain, size 0, the      *)
(* default quantum and qset, and read(0, 1) returns nothing.               *)
(***************************************************************************)
ResetIsFresh ==
    DidReset =>
        /\ last.err = "OK"
        /\ inner = ScullDevData_new
        /\ is_none(inner.data) /\ inner.size = 0
        /\ inner.quantum = SCULL_QUANTUM_DEFAULT /\ inner.qset = SCULL_QSET_DEFAULT
        /\ read_iter(inner, 0, 1) = Empty

\* A reset has just dropped a chain of two nodes.
ResetIsFreshWitness == DidReset /\ resets = 1 /\ freed = 2

(***************************************************************************)
(* C5. Holes: a read at an offset below size whose node, qset or quantum   *)
(* is not allocated returns 0 bytes and no error.                          *)
(***************************************************************************)
HoleReadsEmpty ==
    \A offset \in ReadOffsets, len \in ReadLens :
        IsHole(inner, offset) => read_iter(inner, offset, len) = Empty

\* The claim's scenario: one write, at item_size + quantum_size (item 1,
\* slot 1), so that item_size (item 1, slot 0) is a hole below size; and a
\* read has returned nothing.
HoleReadsEmptyWitness ==
    /\ nwrites = 1 /\ hw > ItemSize(inner) + inner.quantum
    /\ IsHole(inner, ItemSize(inner))
    /\ ~IsHole(inner, ItemSize(inner) + inner.quantum)
    /\ last.op = "read" /\ last.err = "OK" /\ last.val = 0 /\ out = <<>>

(***************************************************************************)
(* C6. A read call leaves the device state as it was: the chain, its qsets *)
(* and quanta, their bytes, size, quantum and qset; and a read at an       *)
(* offset that is not below size returns nothing.                          *)
(***************************************************************************)
ReadChangesNothing ==
    [][last'.op = "read" =>
        /\ inner' = inner
        /\ \A offset \in ReadOffsets, len \in ReadLens :
               offset >= inner.size => read_iter(inner, offset, len) = Empty
      ]_vars

\* A read has returned data from a device with a chain of two nodes.
ReadChangesNothingWitness ==
    /\ last.op = "read" /\ last.val > 0 /\ Len(inner.data) = 2

(***************************************************************************)
(* C7. A read at an offset below size whose quantum is allocated returns   *)
(* min(max_len, quantum_size - byte_index, size - offset) bytes: the       *)
(* quantum's bytes from byte_index on.                                     *)
(***************************************************************************)
ReadLength ==
    \A offset \in ReadOffsets, len \in ReadLens :
        (offset < inner.size /\ ~is_none(QuantumAt(inner, offset))) =>
            LET n == Min3(len, inner.quantum - ByteIndex(inner, offset),
                          inner.size - offset)
                r == read_iter(inner, offset, len)
                b == ByteIndex(inner, offset)
            IN  /\ r.err = "OK"
                /\ r.val = n
                /\ r.bytes = SubSeq(unwrap(QuantumAt(inner, offset)), b + 1, b + n)
                /\ b + n <= inner.quantum
                /\ offset + n <= inner.size

\* A read has returned one byte, the last below size, which is not the last
\* of its quantum.
ReadLengthWitness ==
    /\ last.op = "read" /\ last.val = 1 /\ inner.size = 1
    /\ out = SubSeq(unwrap(QuantumAt(inner, 0)), 1, 1)

(***************************************************************************)
(* C8. size is the high-water mark: the largest offset + returned length   *)
(* of a successful write since the last reset (0 when there is none). A    *)
(* write never lowers it, a failed write and a read leave it, and only a   *)
(* reset lowers it.                                                        *)
(***************************************************************************)
SizeIsHighWater ==
    [][/\ inner'.size = hw'
       /\ last'.op = "write" => inner'.size >= inner.size
       /\ (last'.op = "write" /\ last'.err # "OK") => inner'.size = inner.size
       /\ last'.op = "read" => inner'.size = inner.size
       /\ inner'.size < inner.size => (last'.op = "ioctl" /\ last'.cmd = 0)
      ]_vars

\* A second write that ended below the mark of the first left size alone.
SizeIsHighWaterWitness ==
    /\ WroteOK /\ nwrites = 2
    /\ last.offset + last.val < inner.size /\ inner.size = hw

(***************************************************************************)
(* C10. A reset done right after a reset changes nothing.                  *)
(***************************************************************************)
ResetIdempotent ==
    [][(resets >= 1 /\ last'.op = "ioctl" /\ last'.cmd = 0) => inner' = inner]_vars

\* Two resets in a row have been done.
ResetIdempotentWitness == resets = 2 /\ DidReset

(***************************************************************************)
(* C9. The calls on one device exclude each other: a thread is between     *)
(* its first access to inner and its return only while it holds the mutex, *)
(* so no two threads are there at once; inner stays as the thread found it *)
(* until its own body runs, and the state and result it leaves are those   *)
(* of the call run alone on the state it found. The calls thus take effect *)
(* one after the other, in the order in which they took the mutex.         *)
(***************************************************************************)
LockSerializes ==
    /\ \A t \in Threads : InCS(t) => mutex = Some(t)
    /\ \A t1 \in Threads, t2 \in Threads : (InCS(t1) /\ InCS(t2)) => t1 = t2
    /\ \A t \in Threads : th[t].pc = "cs" => inner = th[t].snap
    /\ \A t \in Threads : th[t].pc = "unlock" =>
           LET r == Apply(th[t], th[t].snap)
           IN  /\ inner = r.dev
               /\ th[t].err = r.err /\ th[t].val = r.val /\ th[t].bytes = r.bytes
    /\ is_none(mutex) => \A t \in Threads : ~InCS(t)

\* One thread has written and not yet returned while the other waits at
\* device.lock() with a reset.
LockSerializesWitness ==
    \E t1 \in Threads, t2 \in Threads :
        /\ th[t1].pc = "unlock" /\ th[t1].op = "write" /\ th[t1].err = "OK"
        /\ th[t2].pc = "lock" /\ th[t2].op = "ioctl"
        /\ inner.size > 0

(***************************************************************************)
(* C11. Reset is the only command: an ioctl whose command code is not the  *)
(* reset code returns the unsupported-command error (ENOTTY) and leaves    *)
(* the device state as it was.                                             *)
(***************************************************************************)
OtherCommandRejected ==
    [][(last'.op = "ioctl" /\ last'.cmd # 0) =>
        /\ last'.err = "ENOTTY"
        /\ inner' = inner
      ]_vars

\* Another command has been rejected on a device that holds data.
OtherCommandRejectedWitness ==
    /\ last.op = "ioctl" /\ last.cmd # 0 /\ last.err = "ENOTTY"
    /\ inner.size > 0 /\ ~is_none(inner.data)

(***************************************************************************)
(* C12. Contiguous chain extension: after a successful write whose offset  *)
(* resolves to item i the chain has a node at every position 0..i, and     *)
(* while no write has failed since the last reset the chain length is 0 if *)
(* no write was made and otherwise 1 + the largest item a write resolved   *)
(* to since creation or the last reset.                                    *)
(***************************************************************************)
ChainContiguous ==
    /\ WroteOK =>
          \A i \in 0..ItemIndex(inner, last.offset) : i + 1 \in DOMAIN inner.data
    /\ ~hist.failed =>
          /\ hist.touched = {} => Len(inner.data) = 0
          /\ hist.touched # {} =>
                 \E p \in hist.touched :
                     /\ \A q \in hist.touched : q[1] <= p[1]
                     /\ Len(inner.data) = 1 + p[1]

\* One write, to item 1 of a new device, has made a chain of two nodes.
ChainContiguousWitness ==
    /\ WroteOK /\ nwrites = 1 /\ ~hist.failed
    /\ ItemIndex(inner, last.offset) = 1
    /\ Len(inner.data) = 2

(***************************************************************************)
(* C13. Lazy allocation: a chain node has a qset only if a write since the *)
(* last reset resolved to that node's item, and a slot holds a quantum     *)
(* only if a write since the last reset resolved to that (item, slot); a   *)
(* node made only to reach a later item has no qset.                       *)
(***************************************************************************)
LazyAllocation ==
    \A i \in 1..Len(inner.data) :
        LET d == inner.data[i].data
        IN  /\ ~is_none(d) =>
                  /\ \E p \in hist.touched : p[1] = i - 1
                  /\ \A s \in 1..Len(unwrap(d)) :
                         ~is_none(unwrap(d)[s]) => <<i - 1, s - 1>> \in hist.touched
            /\ (\A p \in hist.touched : p[1] # i - 1) => is_none(d)

\* A write to item 1 has left node 0 without a qset, and node 1 with a qset
\* of which one slot holds a quantum.
LazyAllocationWitness ==
    /\ WroteOK
    /\ Len(inner.data) = 2
    /\ is_none(inner.data[1].data)
    /\ ~is_none(inner.data[2].data)
    /\ Cardinality({ s \in 1..inner.qset : ~is_none(unwrap(inner.data[2].data)[s]) }) = 1

(***************************************************************************)
(* C14. Shape invariant: every allocated quantum has exactly inner.quantum *)
(* bytes and every allocated qset exactly inner.qset slots, so the s_pos   *)
(* and the byte range that write_iter and read_iter compute for any offset *)
(* and length are within the qset and the quantum.                         *)
(***************************************************************************)
ShapeInvariant ==
    /\ \A i \in 1..Len(inner.data) :
           LET d == inner.data[i].data
           IN  ~is_none(d) =>
                   /\ Len(unwrap(d)) = inner.qset
                   /\ \A s \in 1..Len(unwrap(d)) :
                          ~is_none(unwrap(d)[s]) => Len(unwrap(unwrap(d)[s])) = inner.quantum
    /\ \A offset \in ReadOffsets, len \in ReadLens :
           LET s_pos == s_pos_of(offset, inner.quantum, inner.qset)
               q_pos == q_pos_of(offset, inner.quantum, inner.qset)
               slot == QuantumAt(inner, offset)
           IN  /\ s_pos < inner.qset
               /\ q_pos < inner.quantum
               /\ ~is_none(slot) =>
                      /\ q_pos + write_count_of(len, inner.quantum, q_pos) <= Len(unwrap(slot))
                      /\ offset < inner.size =>
                             q_pos + read_clamp(read_count_of(len, offset, inner.size),
                                                inner.quantum, q_pos) <= Len(unwrap(slot))

\* Two quanta are allocated, in qsets of two nodes.
ShapeInvariantWitness ==
    /\ Len(inner.data) = 2
    /\ ~is_none(inner.data[1].data) /\ ~is_none(inner.data[2].data)
    /\ Cardinality({ p \in Positions : ~is_none(ByteAt(inner, p)) }) = 2 * inner.quantum

WriteFrame ==
    [][(last'.op = "write" /\ last'.err = "OK") =>
        /\ \A p \in Positions :
               (p < last'.offset \/ p >= last'.offset + last'.val) =>
                   (~is_none(ByteAt(inner, p)) => ByteAt(inner', p) = ByteAt(inner, p))
        /\ Len(inner'.data) >= Len(inner.data)
        /\ \A i \in 1..Len(inner.data) :
               ~is_none(inner.data[i].data) =>
                   /\ ~is_none(inner'.data[i].data)
                   /\ \A s \in 1..Len(unwrap(inner.data[i].data)) :
                          ~is_none(unwrap(inner.data[i].data)[s]) =>
                              ~is_none(unwrap(inner'.data[i].data)[s])
        /\ inner'.size \in {inner.size, last'.offset + last'.val}
        /\ inner'.size >= inner.size
        /\ inner'.quantum = inner.quantum /\ inner'.qset = inner.qset
      ]_vars

\* The second write went to offset 1, next to the byte the first write left
\* at offset 0 of the same quantum, which is still there.
WriteFrameWitness ==
    /\ WroteOK /\ nwrites = 2
    /\ last.offset = 1 /\ last.val = 1
    /\ ByteAt(inner, 0) = Some(11)
    /\ ByteAt(inner, 1) = Some(21)

(***************************************************************************)
(* C17. Zero fill inside an allocated quantum: a byte of an allocated      *)
(* quantum at a logical offset below size that no write since the last     *)
(* reset has covered is 0 and reads as 0. In particular, after the first   *)
(* write to a new or reset device, at byte q_pos of its quantum, a read    *)
(* from the start of that quantum returns q_pos zero bytes followed by the *)
(* bytes written.                                                          *)
(***************************************************************************)
ZeroFill ==
    /\ \A p \in Positions :
           (p < inner.size /\ ~is_none(ByteAt(inner, p)) /\ p \notin hist.covered) =>
               /\ ByteAt(inner, p) = Some(0)
               /\ read_iter(inner, p, 1) = [err |-> "OK", val |-> 1, bytes |-> <<0>>]
    /\ (WroteOK /\ nwrites = 1) =>
           LET q_pos == ByteIndex(inner, last.offset)
           IN  read_iter(inner, last.offset - q_pos, q_pos + last.val).bytes
                   = [i \in 1..q_pos |-> 0] \o SubSeq(src, 1, last.val)

\* A read has returned a zero byte followed by the byte that the only write
\* stored after it in the same quantum.
ZeroFillWitness ==
    /\ last.op = "read" /\ last.err = "OK"
    /\ out = <<0, 11>>
    /\ nwrites = 1
    /\ hist.covered = {1}

(***************************************************************************)
(* C19. Configuration is constant: in every state reached through open,    *)
(* read, write and the reset command, quantum and qset are the defaults    *)
(* (SCULL_QUANTUM_DEFAULT, SCULL_QSET_DEFAULT: 4000 and 1000 in the        *)
(* source, 2 and 3 here), both above 0, so quantum * qset is not 0 and no  *)
(* read or write has returned or would return the configuration error.     *)
(***************************************************************************)
ConfigConstant ==
    /\ inner.quantum = SCULL_QUANTUM_DEFAULT /\ inner.quantum > 0
    /\ inner.qset = SCULL_QSET_DEFAULT /\ inner.qset > 0
    /\ ItemSize(inner) # 0
    /\ last.err # "EFAULT"
    /\ \A offset \in ReadOffsets, len \in ReadLens :
           read_iter(inner, offset, len).err # "EFAULT"
    /\ \A offset \in Offsets :
           \A budget \in {0, allocs_asked(inner, offset)} :
               write_iter(inner, offset, Source(1, 1), budget).err # "EFAULT"

\* A reset has dropped a chain of one node, and the configuration is the
\* default one.
ConfigConstantWitness ==
    /\ DidReset /\ last.err = "OK" /\ freed = 1
    /\ inner.quantum = SCULL_QUANTUM_DEFAULT
    /\ inner.qset = SCULL_QSET_DEFAULT

(***************************************************************************)
(* C18. The devices of different open files are independent: a successful  *)
(* open gives the file a new ScullDevData with no data, size 0 and the     *)
(* default quantum and qset; and a call on one file (write, reset, any     *)
(* other) leaves the ScullDevData of every other file as it was, so that   *)
(* every read on another file returns what it returned before the call.    *)
(***************************************************************************)
SessionsIndependent ==
    [][/\ (lastf'.op = "open" /\ lastf'.err = "OK") =>
              files'[lastf'.file] = Some(ScullDevData_new)
       /\ \A g \in Files :
              g # lastf'.file =>
                  /\ files'[g] = files[g]
                  /\ ~is_none(files[g]) =>
                         /\ ~is_none(files'[g])
                         /\ \A offset \in ReadOffsets, len \in ReadLens :
                                read_iter(unwrap(files'[g]), offset, len)
                                    = read_iter(unwrap(files[g]), offset, len)
      ]_vars

\* File A has just been written, and holds one quantum at offset 0; file B,
\* open as well, holds what was written to it at the other offset.
SessionsIndependentWitness ==
    /\ lastf.file = "A" /\ lastf.op = "write" /\ lastf.err = "OK"
    /\ ~is_none(files["A"]) /\ ~is_none(files["B"])
    /\ unwrap(files["A"]).size = SCULL_QUANTUM_DEFAULT
    /\ unwrap(files["B"]).size > SCULL_QUANTUM_DEFAULT
    /\ Len(unwrap(files["B"]).data) > Len(unwrap(files["A"]).data)

(***************************************************************************)
(* C20. As claimed, for the reading client: once its loop has ended with   *)
(* an empty result, what it received is exactly the N bytes written.       *)
(* LoopExact states that; it fails on a device that already held bytes     *)
(* right after offset o + N, which the reader receives too before the      *)
(* empty result.                                                           *)
(***************************************************************************)
LoopExact == cl.pc = "done" => cl.got = cl.data

\* What holds of the looping client in every state.
LoopProgress ==
    /\ \A offset \in Offsets, s \in Sources(1) :
           LET r == write_iter(inner, offset, s, allocs_asked(inner, offset))
           IN  r.err = "OK" /\ r.val >= 1
    /\ cl.pc = "write" =>
           /\ cl.pos - cl.o >= cl.calls
           /\ cl.pos - cl.o < Len(cl.data)
    /\ cl.pc \in {"read", "done"} =>
           /\ cl.calls >= 1 /\ cl.calls <= Len(cl.data)
           /\ inner.size >= cl.o + Len(cl.data)
           /\ \A i \in 1..Min(Len(cl.got), Len(cl.data)) : cl.got[i] = cl.data[i]
    /\ cl.pc = "done" =>
           /\ Len(cl.got) >= Len(cl.data)
           /\ SubSeq(cl.got, 1, Len(cl.data)) = cl.data
           /\ inner.size = cl.o + Len(cl.data) => cl.got = cl.data

\* C20, amended: with no allocation failure every write with a non-empty
\* source returns at least 1, so the client that writes N bytes from offset o
\* on in a loop finishes within N calls; the client that then reads from o on
\* in a loop receives those N bytes, in order, as the first N bytes and with
\* no empty result before them, and does get an empty result in the end;
\* what it received is exactly the N bytes when size = o + N.
LoopTransfer == [](LoopProgress) /\ <>(cl.pc = "done")

\* The client wrote three bytes in two calls and read exactly them back, on
\* a device that held an earlier write.
LoopTransferWitness ==
    /\ cl.pc = "done"
    /\ Len(cl.data) = 3 /\ cl.calls = 2
    /\ cl.got = cl.data
    /\ nwrites = 1

====
